---------------------------- MODULE Spec2Model ----------------------------
(***************************************************************************)
(* A model of toml-maid (src/src/lib.rs): the format/sort engine           *)
(* (format_table, format_inline_table, format_value, format_array) and the *)
(* file driver (run, process_file).                                        *)
(*                                                                         *)
(* Text is a sequence of one-character strings.  A decoration is such a    *)
(* text, or None (toml_edit's Decor holds Option<RawString>).  Every node  *)
(* of a document is a record of one shape (Node), so that any two nodes    *)
(* can be compared.                                                        *)
(***************************************************************************)
EXTENDS Naturals, Integers, Sequences, FiniteSets, Bags, TLC

VARIABLES
    config,      \* Spec: the Config the formatter runs with
    input,       \* Spec: the node handed to the formatter
    once,        \* Spec: the formatter's output on input
    twice,       \* Spec: the formatter's output on its own output
    stage,       \* Spec: "input" | "once" | "twice"
    disk,        \* SpecRun: file name -> content on disk
    disk0,       \* SpecRun: the disk when the run started
    files,       \* SpecRun: opt.files
    check,       \* SpecRun: opt.check
    next_file,   \* SpecRun: index in files of the file the loop of run is at
    status,      \* SpecRun: "running" | "ok" | "err" | "exit2" | "exit3"
    outcomes     \* SpecRun: per processed file, what process_file did

vars == <<config, input, once, twice, stage,
          disk, disk0, files, check, next_file, status, outcomes>>

-----------------------------------------------------------------------------
(* Characters and text. *)

SP  == " "
TAB == "\t"
NL  == "\n"
APOSTROPHE == "'"
QUOTE == "\""
BACKSLASH == "\\"
HASH == "#"

\* Option::None of a decoration; no text is equal to it.
None == <<"None">>

\* The characters of the model in byte order (str's Ord compares bytes).
ByteOrder == <<TAB, NL, SP, QUOTE, HASH, APOSTROPHE, ",", "1", "2", "3", "=",
               "[", BACKSLASH, "]", "a", "b", "c", "d", "p", "q", "r", "s",
               "x", "y", "z", "{", "}">>

Byte(c) == CHOOSE i \in 1..Len(ByteOrder) : ByteOrder[i] = c

\* Ordering of x.cmp(y) on str.
RECURSIVE cmp_str(_, _)
cmp_str(x, y) ==
    IF x = <<>> /\ y = <<>> THEN "Equal"
    ELSE IF x = <<>> THEN "Less"
    ELSE IF y = <<>> THEN "Greater"
    ELSE IF Byte(Head(x)) < Byte(Head(y)) THEN "Less"
    ELSE IF Byte(Head(x)) > Byte(Head(y)) THEN "Greater"
    ELSE cmp_str(Tail(x), Tail(y))

\* Option<RawString>::map(as_some_str).unwrap_or("")
unwrap_or_empty(d) == IF d = None THEN <<>> ELSE d

starts_with(s, c) == s # <<>> /\ Head(s) = c

contains(s, c) == \E i \in 1..Len(s) : s[i] = c

RECURSIVE trim_start_matches(_, _)
trim_start_matches(s, cs) ==
    IF s # <<>> /\ Head(s) \in cs THEN trim_start_matches(Tail(s), cs) ELSE s

RECURSIVE trim_end_matches(_, _)
trim_end_matches(s, cs) ==
    IF s # <<>> /\ s[Len(s)] \in cs
    THEN trim_end_matches(SubSeq(s, 1, Len(s) - 1), cs)
    ELSE s

trim_matches(s, cs) == trim_end_matches(trim_start_matches(s, cs), cs)

\* The white space of the model's characters (char::is_whitespace).
WhiteSpace == {SP, TAB, NL}

trim(s) == trim_matches(s, WhiteSpace)

trim_end(s) == trim_end_matches(s, WhiteSpace)

-----------------------------------------------------------------------------
(* The document tree (toml_edit's Item, Value, Array, InlineTable, Table). *)

\* kind: "integer" | "string" | "array" | "inline_table" | "table"
Node(kind, repr, prefix, suffix, values, trailing, trailing_comma, entries) ==
    [kind |-> kind, repr |-> repr, prefix |-> prefix, suffix |-> suffix,
     values |-> values, trailing |-> trailing,
     trailing_comma |-> trailing_comma, entries |-> entries]

\* A scalar Value: its textual representation and its decoration.
Scalar(kind, repr, prefix, suffix) ==
    Node(kind, repr, prefix, suffix, <<>>, <<>>, FALSE, <<>>)

Array(values, trailing, trailing_comma, prefix, suffix) ==
    Node("array", <<>>, prefix, suffix, values, trailing, trailing_comma, <<>>)

InlineTable(entries, prefix, suffix) ==
    Node("inline_table", <<>>, prefix, suffix, <<>>, <<>>, FALSE, entries)

Table(entries, prefix, suffix) ==
    Node("table", <<>>, prefix, suffix, <<>>, <<>>, FALSE, entries)

\* A key of a table with its decoration and its item; also struct Entry<T>.
Entry(key, value, prefix, suffix) ==
    [key |-> key, value |-> value, decor |-> [prefix |-> prefix, suffix |-> suffix]]

set_prefix(entry, prefix) == [entry EXCEPT !.decor.prefix = prefix]

set_suffix(entry, suffix) == [entry EXCEPT !.decor.suffix = suffix]

decorated(v, prefix, suffix) == [v EXCEPT !.prefix = prefix, !.suffix = suffix]

-----------------------------------------------------------------------------
(* Configuration. *)

\* GenericConfig<Vec<String>>; excludes only drive the directory scan.
Config(keys, inline_keys, sort_arrays) ==
    [keys |-> keys, inline_keys |-> inline_keys, sort_arrays |-> sort_arrays]

\* The BTreeMap the loops of From<Config> build: a later insert of the same
\* key overwrites the earlier index.
index_map(list) ==
    [k \in {list[i] : i \in 1..Len(list)} |->
        (CHOOSE i \in 1..Len(list) :
            list[i] = k /\ \A j \in 1..Len(list) : list[j] = k => j <= i) - 1]

\* impl From<Config> for ProcessedConfig
from_config(x) ==
    [keys |-> index_map(x.keys), inline_keys |-> index_map(x.inline_keys),
     sort_arrays |-> x.sort_arrays]

\* The elements of a sequence.
Elements(s) == {s[i] : i \in 1..Len(s)}

\* slice::sort_by, a stable sort: an element comes after those that compare
\* Less than it and after those before it that compare Equal to it.
\* compare is the closure, as a function of two elements.
sort_by(s, compare) ==
    LET before(j, i) == \/ compare[s[j], s[i]] = "Less"
                        \/ compare[s[j], s[i]] = "Equal" /\ j < i
        place(i) == Cardinality({j \in 1..Len(s) : j # i /\ before(j, i)}) + 1
    IN  [p \in 1..Len(s) |-> s[CHOOSE i \in 1..Len(s) : place(i) = p]]

\* usize::cmp
cmp_usize(x, y) == IF x < y THEN "Less" ELSE IF x > y THEN "Greater" ELSE "Equal"

\* A slip in sort: keys without a rank are left in the order they are
\* written in.
sort_ranked_only(ranks, x, y) ==
    IF x.key \in DOMAIN ranks /\ y.key \notin DOMAIN ranks THEN "Less"
    ELSE IF x.key \notin DOMAIN ranks /\ y.key \in DOMAIN ranks THEN "Greater"
    ELSE IF x.key \in DOMAIN ranks /\ y.key \in DOMAIN ranks
         THEN cmp_usize(ranks[x.key], ranks[y.key])
    ELSE "Equal"

\* The closure sort of format_table and of format_inline_table, over the
\* rank map (self.keys or self.inline_keys) it captures.
sort(ranks, x, y) ==
    IF x.key \in DOMAIN ranks /\ y.key \notin DOMAIN ranks THEN "Less"
    ELSE IF x.key \notin DOMAIN ranks /\ y.key \in DOMAIN ranks THEN "Greater"
    ELSE IF x.key \in DOMAIN ranks /\ y.key \in DOMAIN ranks
         THEN cmp_usize(ranks[x.key], ranks[y.key])
    ELSE cmp_str(x.key, y.key)

-----------------------------------------------------------------------------
(* format_value, the scalar branch. *)

\* `if prefix.is_empty() { prefix } else { format!(" {}", prefix) }`, on the
\* trimmed decoration.
\* A slip in the decoration kept around a scalar: the text is not trimmed
\* before the space is put in front of it.
keep_existing_untrimmed(d) ==
    LET t == unwrap_or_empty(d) IN IF t = <<>> THEN t ELSE <<SP>> \o t

keep_existing(d) ==
    LET t == trim(unwrap_or_empty(d)) IN IF t = <<>> THEN t ELSE <<SP>> \o t

strip_prefix(s, c) == IF starts_with(s, c) THEN Tail(s) ELSE s

strip_suffix(s, c) ==
    IF s # <<>> /\ s[Len(s)] = c THEN SubSeq(s, 1, Len(s) - 1) ELSE s

\* Value::from(String) displayed: a basic string.  The text holds neither a
\* backslash nor a double quote here, so nothing in it is escaped.
basic_string(s) == <<QUOTE>> \o s \o <<QUOTE>>

\* A slip in convert_quotes: a literal that holds a backslash is converted
\* too.
convert_quotes_with_backslash(display) ==
    IF /\ starts_with(display, APOSTROPHE)
       /\ ~(Len(display) >= 2 /\ display[2] = APOSTROPHE)
       /\ ~contains(display, QUOTE)
    THEN basic_string(strip_suffix(strip_prefix(display, APOSTROPHE), APOSTROPHE))
    ELSE display

\* "Convert simple '...' to "..."": the representation of the scalar after
\* the conversion.
convert_quotes(display) ==
    IF /\ starts_with(display, APOSTROPHE)
       /\ ~(Len(display) >= 2 /\ display[2] = APOSTROPHE)
       /\ ~contains(display, BACKSLASH)
       /\ ~contains(display, QUOTE)
    THEN basic_string(strip_suffix(strip_prefix(display, APOSTROPHE), APOSTROPHE))
    ELSE display

format_scalar(v, last) ==
    LET prefix == keep_existing(v.prefix)
        suffix == keep_existing(v.suffix)
        w == [v EXCEPT !.repr = convert_quotes(v.repr)]
    IN  IF last
        THEN decorated(w, prefix \o <<SP>>, suffix \o <<SP>>)
        ELSE decorated(w, prefix \o <<SP>>, suffix)

-----------------------------------------------------------------------------
(* format_array, format_inline_table, format_value. *)

\* String::value() of a Value::String: its representation without the
\* delimiters (the strings of the model hold no escape sequence).
string_value(v) ==
    LET q == Head(v.repr)
        n == IF Len(v.repr) >= 6 /\ v.repr[2] = q /\ v.repr[3] = q THEN 3 ELSE 1
    IN  SubSeq(v.repr, n + 1, Len(v.repr) - n)

\* A slip in array_compare: the strings are compared the other way round.
array_compare_descending(x, y) ==
    IF x.kind = "string" /\ y.kind = "string"
    THEN cmp_str(string_value(y), string_value(x))
    ELSE IF x.kind = "string" THEN "Less"
    ELSE IF y.kind = "string" THEN "Greater"
    ELSE "Equal"

\* The closure values.sort_by is given when sort_arrays is set.
array_compare(x, y) ==
    IF x.kind = "string" /\ y.kind = "string"
    THEN cmp_str(string_value(x), string_value(y))
    ELSE IF x.kind = "string" THEN "Less"
    ELSE IF y.kind = "string" THEN "Greater"
    ELSE "Equal"

\* The layout detection: the trailing text starts with a newline, or the
\* decoration of some element holds one.
is_multiline(array) ==
    \/ starts_with(array.trailing, NL)
    \/ \E i \in 1..Len(array.values) :
        \/ array.values[i].prefix # None /\ contains(array.values[i].prefix, NL)
        \/ array.values[i].suffix # None /\ contains(array.values[i].suffix, NL)

\* The trailing text of a multiline array.
multiline_trailing(array) ==
    LET trailing == trim_end(trim_matches(array.trailing, {SP, TAB})) \o <<NL>>
    IN  IF starts_with(trailing, NL) THEN trailing ELSE <<SP>> \o trailing

\* A slip in multiline_prefix: the indentation is added to the prefix as it
\* is, without trimming what an earlier pass added.
multiline_prefix_untrimmed(value) ==
    LET prefix == unwrap_or_empty(value.prefix) \o <<NL, TAB>>
    IN  IF starts_with(prefix, NL) THEN prefix ELSE <<SP>> \o prefix

\* The prefix of an element of a multiline array.
multiline_prefix(value) ==
    LET t == trim_end_matches(
                 trim_matches(unwrap_or_empty(value.prefix), {SP, TAB}), {NL})
        prefix == IF t # <<>> THEN t \o <<NL, TAB>> ELSE <<NL, TAB>>
    IN  IF starts_with(prefix, NL) THEN prefix ELSE <<SP>> \o prefix

\* The suffix of an element of a multiline array.
multiline_suffix(value) ==
    LET suffix == trim_matches(unwrap_or_empty(value.suffix), {SP, TAB, NL})
    IN  IF suffix # <<>> THEN suffix \o <<NL>> ELSE suffix

RECURSIVE format_value(_, _, _)
RECURSIVE format_array(_, _, _)
RECURSIVE format_inline_table(_, _, _)

format_array(self, array, last) ==
    LET values == IF self.sort_arrays
                  THEN sort_by(array.values,
                               [x \in Elements(array.values), y \in Elements(array.values)
                                   |-> array_compare(x, y)])
                  ELSE array.values
        len == Len(values)
        formatted ==
            IF is_multiline(array)
            THEN [i \in 1..len |->
                    decorated(format_value(self, values[i], FALSE),
                              multiline_prefix(values[i]),
                              multiline_suffix(values[i]))]
            ELSE [i \in 1..len |-> format_value(self, values[i], i = len)]
    IN  Array(formatted,
              IF is_multiline(array) THEN multiline_trailing(array) ELSE <<>>,
              is_multiline(array),
              <<SP>>,
              IF last THEN <<SP>> ELSE <<>>)

format_inline_table(self, table, last) ==
    LET trimmed == [i \in 1..Len(table.entries) |->
                       set_suffix(set_prefix(table.entries[i], <<SP>>), <<SP>>)]
        entries == sort_by(trimmed,
                           [x \in Elements(trimmed), y \in Elements(trimmed)
                               |-> sort(self.inline_keys, x, y)])
        len == Len(entries)
    IN  InlineTable(
            [i \in 1..len |->
                [entries[i] EXCEPT
                    !.value = format_value(self, entries[i].value, i = len)]],
            None,
            IF last THEN <<SP>> ELSE None)

format_value(self, value, last) ==
    IF value.kind = "array" THEN format_array(self, value, last)
    ELSE IF value.kind = "inline_table" THEN format_inline_table(self, value, last)
    ELSE format_scalar(value, last)

-----------------------------------------------------------------------------
(* format_table. *)

\* Whether the prefix of a later entry opens a new section.
is_new_section(prefix) == prefix # None /\ starts_with(prefix, NL)

\* A slip in the insertion of a section: the section prefix is put on the
\* entry that was pushed first, before the section is sorted.
insert_section_prefix_before_sort(self, formated, section, section_prefix) ==
    LET prefixed == [i \in 1..Len(section) |->
                        IF i = 1 /\ section_prefix # None
                        THEN set_prefix(section[i], section_prefix)
                        ELSE section[i]]
    IN  formated \o
        sort_by(prefixed,
                [x \in Elements(prefixed), y \in Elements(prefixed)
                    |-> sort(self.keys, x, y)])

\* "Sort keys and insert them": the section is sorted and appended to the
\* formatted table; the first entry takes the prefix of section_decor, when
\* section_decor has one.  section_prefix is section_decor.prefix().
insert_section(self, formated, section, section_prefix) ==
    LET sorted == sort_by(section,
                          [x \in Elements(section), y \in Elements(section)
                              |-> sort(self.keys, x, y)])
    IN  formated \o
        [i \in 1..Len(sorted) |->
            IF i = 1 /\ section_prefix # None
            THEN set_prefix(sorted[i], section_prefix)
            ELSE sorted[i]]

\* "Remove any trailing newline in decor suffix."
trim_key_suffix(entry) ==
    IF entry.decor.suffix # None
    THEN set_suffix(entry, trim_end_matches(entry.decor.suffix, {NL}))
    ELSE entry

RECURSIVE format_table(_, _)
RECURSIVE format_entries(_, _, _)

\* "Format inner item."
format_item(self, item) ==
    IF item.kind = "table" THEN format_table(self, item)
    ELSE format_value(self, item, FALSE)

\* The loop over the entries of the table, after its first n entries:
\* the entries inserted so far, the current section and section_decor.
format_entries(self, table, n) ==
    IF n = 0
    THEN [formated |-> <<>>, section |-> <<>>, section_prefix |-> None]
    ELSE
    LET before == format_entries(self, table, n - 1)
        entry == table.entries[n]
        prefix == entry.decor.prefix
        first == n = 1 /\ prefix # None /\ prefix # <<>>
        later == n > 1 /\ is_new_section(prefix)
        key_decor == IF first \/ later THEN set_prefix(entry, <<>>) ELSE entry
        pushed == [trim_key_suffix(key_decor) EXCEPT
                      !.value = format_item(self, entry.value)]
    IN  IF later
        THEN [formated |-> insert_section(self, before.formated, before.section,
                                          before.section_prefix),
              section |-> <<pushed>>,
              section_prefix |-> prefix]
        ELSE [formated |-> before.formated,
              section |-> Append(before.section, pushed),
              section_prefix |-> IF first THEN prefix ELSE before.section_prefix]

format_table(self, table) ==
    LET end == format_entries(self, table, Len(table.entries))
    IN  Table(insert_section(self, end.formated, end.section, end.section_prefix),
              unwrap_or_empty(table.prefix),
              unwrap_or_empty(table.suffix))

-----------------------------------------------------------------------------
(* The documents the formatter is run on. *)

MaxEntries == 3
MaxValues == 3

KeyA  == <<"a">>
KeyAB == <<"a", "b">>
KeyB  == <<"b">>
KeyC  == <<"c">>
KeyD  == <<"d">>
KeyX  == <<"x">>
KeyY  == <<"y">>

Comment(text) == <<HASH>> \o text

Integer(repr) == Scalar("integer", repr, <<SP>>, <<>>)

String(repr) == Scalar("string", repr, <<SP>>, <<>>)

Literal(text) == <<APOSTROPHE>> \o text \o <<APOSTROPHE>>

\* What is written above a key of a table.
Above == {"nothing", "blank", "comment", "blank, comment", "comment, blank"}

\* The prefix the key is parsed with.  A comment is named after the key it
\* is written above.
KeyPrefix(above, key) ==
    CASE above = "nothing"        -> <<>>
      [] above = "blank"          -> <<NL>>
      [] above = "comment"        -> Comment(key) \o <<NL>>
      [] above = "blank, comment" -> <<NL>> \o Comment(<<"s">> \o key) \o <<NL>>
      [] above = "comment, blank" -> Comment(key) \o <<NL, NL>>

\* x = 2, y = 1 written as `{ y = 1, x = 2 }`
SomeInlineTable ==
    InlineTable(<<Entry(KeyY, Integer(<<"1">>), <<SP>>, <<SP>>),
                  Entry(KeyX, decorated(Integer(<<"2">>), <<SP>>, <<SP>>),
                        <<SP>>, <<SP>>)>>,
                <<SP>>, <<>>)

\* `["b", 'a'] #q`
SomeArray ==
    Array(<<decorated(String(basic_string(<<"b">>)), <<>>, <<>>),
            String(Literal(<<"a">>))>>,
          <<>>, FALSE, <<SP>>, <<SP>> \o Comment(<<"q">>))

\* The value written after each key.
ValueOf(key) ==
    CASE key = KeyA  -> Integer(<<"1">>)
      [] key = KeyAB -> decorated(String(Literal(<<"x">>)), <<SP>>,
                                  <<SP>> \o Comment(<<"p">>))
      [] key = KeyB  -> SomeArray
      [] key = KeyC  -> SomeInlineTable

TableKeys == {KeyA, KeyAB, KeyB, KeyC}

\* The ways to write n keys, each key once.
KeysWritten(n) ==
    {keys \in [1..n -> TableKeys] : \A i, j \in 1..n : i # j => keys[i] # keys[j]}

\* The table of the keys, each with its value, under what is written above.
TableOf(keys, above) ==
    Table([i \in 1..Len(keys) |->
              Entry(keys[i], ValueOf(keys[i]), KeyPrefix(above[i], keys[i]), <<SP>>)],
          <<>>, <<>>)

\* A document of one table `[d]`, written after a blank line.
Nested(table) ==
    Table(<<Entry(KeyD, [table EXCEPT !.prefix = <<NL>>], <<>>, <<>>)>>, <<>>, <<>>)


\* The elements an array is written with: on the line of the bracket, or on
\* lines of their own with a comment above or after them.
ArrayValues ==
    { Integer(<<"3">>),
      String(basic_string(<<"b">>)),
      String(Literal(<<"a">>)),
      decorated(Integer(<<"2">>),
                <<NL, SP, SP>> \o Comment(<<"r">>) \o <<NL, SP, SP>>, <<>>),
      decorated(String(basic_string(<<"c">>)),
                <<SP>>, <<SP>> \o Comment(<<"p">>) \o <<NL>>) }

\* The text between the last comma and the closing bracket.
ArrayTrailings ==
    { <<>>,
      <<NL>>,
      <<SP>> \o Comment(<<"q">>) \o <<NL>>,
      <<NL, SP, SP>> \o Comment(<<"q">>) \o <<NL>> }

\* `[3, "b", 1, "a"]`
MixedArray ==
    Array(<<decorated(Integer(<<"3">>), <<>>, <<>>), String(basic_string(<<"b">>)),
            Integer(<<"1">>), String(basic_string(<<"a">>))>>,
          <<>>, FALSE, <<SP>>, <<>>)


\* The scalars a key is given: literal, multi-line literal and basic strings,
\* an integer.
ScalarReprs ==
    { Literal(<<"x">>),
      Literal(<<>>),
      Literal(<<"a", BACKSLASH, "b">>),
      Literal(<<"a", QUOTE>>),
      <<APOSTROPHE, APOSTROPHE>> \o Literal(<<"x">>) \o <<APOSTROPHE, APOSTROPHE>>,
      basic_string(<<"x">>),
      basic_string(<<"a", APOSTROPHE>>),
      <<"1">> }

Scalars ==
    {Scalar(IF r = <<"1">> THEN "integer" ELSE "string", r, p, x) :
        r \in ScalarReprs,
        p \in {<<>>, <<SP>>, <<SP, SP>>},
        x \in {<<>>, <<SP>> \o Comment(<<"p">>), <<SP, SP>>}}

\* A document of one key.
OneKey(value) == Table(<<Entry(KeyA, value, <<>>, <<SP>>)>>, <<>>, <<>>)

\* A document of keys in sections, of a nested table, of an array or of a
\* scalar.
IsInput(doc) ==
    \/ \E n \in 0..MaxEntries : \E keys \in KeysWritten(n) : \E above \in [1..n -> Above] :
        doc = TableOf(keys, above)
    \/ \E n \in 1..2 : \E keys \in KeysWritten(n) : \E above \in [1..n -> Above] :
        doc = Nested(TableOf(keys, above))
    \/ \E n \in 0..MaxValues : \E values \in [1..n -> ArrayValues] :
        \E trailing \in ArrayTrailings :
            doc = OneKey(Array(values, trailing, FALSE, <<SP>>, <<>>))
    \/ doc = OneKey(MixedArray)
    \/ \E v \in Scalars : doc = OneKey(v)

\* No keys; the keys of the specification's example; a key listed twice.
Configs ==
    { Config(<<>>, <<>>, FALSE),
      Config(<<KeyB, KeyA>>, <<KeyY>>, TRUE),
      Config(<<KeyC, KeyAB, KeyC>>, <<>>, TRUE) }

-----------------------------------------------------------------------------
(* Spec: the formatter applied to a document, then to its own output. *)

\* A value for a variable that is not set yet.
Unset == Table(<<>>, None, None)

\* The variables of the file driver, which does not run in Spec.
NoRun ==
    /\ disk = <<>> /\ disk0 = <<>> /\ files = <<>> /\ check = FALSE
    /\ next_file = 0 /\ status = "none" /\ outcomes = <<>>

Init ==
    /\ config \in Configs
    /\ IsInput(input)
    /\ once = Unset
    /\ twice = Unset
    /\ stage = "input"
    /\ NoRun

\* self.format_table(&doc) of process_file
Format ==
    /\ stage = "input"
    /\ once' = format_table(from_config(config), input)
    /\ stage' = "once"
    /\ UNCHANGED <<config, input, twice,
                   disk, disk0, files, check, next_file, status, outcomes>>

\* The same on the formatter's output.
Reformat ==
    /\ stage = "once"
    /\ twice' = format_table(from_config(config), once)
    /\ stage' = "twice"
    /\ UNCHANGED <<config, input, once,
                   disk, disk0, files, check, next_file, status, outcomes>>

Next == Format \/ Reformat

Spec == Init /\ [][Next]_vars

-----------------------------------------------------------------------------
(* What the properties of the formatter are stated with. *)

ToBag(s) == [x \in {s[i] : i \in 1..Len(s)} |-> Cardinality({i \in 1..Len(s) : s[i] = x})]

\* The comments written in a decoration, in order: each runs from after its
\* '#' to the end of its line.
RECURSIVE CommentsIn(_)
CommentsIn(d) ==
    LET s == unwrap_or_empty(d)
        stop == IF contains(s, NL)
                THEN CHOOSE i \in 1..Len(s) : s[i] = NL /\ \A j \in 1..(i - 1) : s[j] # NL
                ELSE Len(s) + 1
    IN  IF s = <<>> THEN <<>>
        ELSE IF Head(s) = HASH
             THEN <<SubSeq(s, 2, stop - 1)>> \o CommentsIn(SubSeq(s, stop, Len(s)))
        ELSE CommentsIn(Tail(s))

\* The comments written anywhere in a node, its values and its entries.
RECURSIVE CommentsOf(_)
RECURSIVE CommentsOfFirst(_, _, _)
CommentsOf(node) ==
    CommentsIn(node.prefix)
    \o CommentsOfFirst(Len(node.values), node.values, FALSE)
    \o CommentsOfFirst(Len(node.entries), node.entries, TRUE)
    \o CommentsIn(node.trailing) \o CommentsIn(node.suffix)

CommentsOfFirst(n, s, keyed) ==
    IF n = 0 THEN <<>>
    ELSE CommentsOfFirst(n - 1, s, keyed)
         \o (IF keyed
             THEN CommentsIn(s[n].decor.prefix) \o CommentsIn(s[n].decor.suffix)
                  \o CommentsOf(s[n].value)
             ELSE CommentsOf(s[n]))

KeysOf(table) == [i \in 1..Len(table.entries) |-> table.entries[i].key]

\* Where a key is written in a table (0: nowhere).
PlaceOf(key, table) ==
    IF \E i \in 1..Len(table.entries) : table.entries[i].key = key
    THEN CHOOSE i \in 1..Len(table.entries) : table.entries[i].key = key
    ELSE 0

\* A blank line is written above the key: a line of the prefix holds nothing
\* but spaces and tabs.
BlankLineAbove(entry) ==
    LET s == unwrap_or_empty(entry.decor.prefix)
    IN  \E i \in 1..Len(s) :
            /\ s[i] = NL
            /\ \E h \in 1..i :
                /\ h = 1 \/ s[h - 1] = NL
                /\ \A j \in h..(i - 1) : s[j] \in {SP, TAB}

-----------------------------------------------------------------------------
(* The claims on the formatter (Spec). *)

\* C1: formatting the formatter's own output changes nothing: the keys, their
\* order, every decoration, the trailing text and the trailing comma of every
\* array are those of the first pass.
Idempotence == stage = "twice" => twice = once

\* C1 witness: a document of sections, keys out of order and an array, which
\* the first pass changed and the second pass was run on.
IdempotenceWitness ==
    /\ stage = "twice"
    /\ once # input
    /\ KeysOf(once) # KeysOf(input)
    /\ \E i \in 1..Len(input.entries) : input.entries[i].value.kind = "array"
    /\ \E i \in 2..Len(input.entries) : is_new_section(input.entries[i].decor.prefix)

\* C2: the comments of the formatted document are, as a multiset, the
\* comments of the document.
CommentPreservation ==
    stage = "once" => ToBag(CommentsOf(once)) = ToBag(CommentsOf(input))

\* C3: a key written before a blank line stays before every key written
\* after it.
SectionLocality ==
    stage = "once" =>
        \A i, j \in 1..Len(input.entries) :
            (i < j /\ \E k \in (i + 1)..j : BlankLineAbove(input.entries[k]))
            => PlaceOf(input.entries[i].key, once) < PlaceOf(input.entries[j].key, once)

\* C10: a comment in the prefix of a key that does not open a section is in
\* the prefix of that key after formatting.
CommentOwnership ==
    stage = "once" =>
        \A i \in 2..Len(input.entries) :
            LET entry == input.entries[i]
                place == PlaceOf(entry.key, once)
            IN  ~starts_with(entry.decor.prefix, NL)
                => /\ place # 0
                   /\ \A c \in DOMAIN ToBag(CommentsIn(entry.decor.prefix)) :
                        c \in DOMAIN ToBag(CommentsIn(once.entries[place].decor.prefix))


\* x is before y in the byte-wise lexicographic order of str.
LexLess(x, y) ==
    \E n \in 0..Len(x) :
        /\ n <= Len(y)
        /\ \A i \in 1..n : x[i] = y[i]
        /\ \/ n = Len(x) /\ n < Len(y)
           \/ n < Len(x) /\ n < Len(y) /\ Byte(x[n + 1]) < Byte(y[n + 1])

Configured(list, key) == \E i \in 1..Len(list) : list[i] = key

\* The rank of a configured key: the place it is listed at, the last one
\* when it is listed more than once.
RankOf(list, key) ==
    CHOOSE i \in 1..Len(list) : list[i] = key /\ \A j \in (i + 1)..Len(list) : list[j] # key

\* The order of the keys of a section: configured keys first by rank, then
\* the other keys in lexicographic order.
KeyBefore(list, x, y) ==
    \/ Configured(list, x) /\ ~Configured(list, y)
    \/ Configured(list, x) /\ Configured(list, y) /\ RankOf(list, x) < RankOf(list, y)
    \/ ~Configured(list, x) /\ ~Configured(list, y) /\ LexLess(x, y)

\* Entries i < j of the table are in one section: no entry after i up to j
\* opens a section.
SameSection(table, i, j) ==
    \A k \in (i + 1)..j : ~is_new_section(table.entries[k].decor.prefix)

SectionsOrdered(list, table) ==
    \A i, j \in 1..Len(table.entries) :
        (i < j /\ SameSection(table, i, j))
        => KeyBefore(list, table.entries[i].key, table.entries[j].key)

\* The closure sort is a total order on the entries: any two of different
\* keys compare Less one way and Greater the other, and Less is transitive.
TotalOrder(ranks, entries) ==
    LET E == {entries[i] : i \in 1..Len(entries)}
    IN  /\ \A x, y \in E :
            /\ x.key = y.key => sort(ranks, x, y) = "Equal"
            /\ x.key # y.key => sort(ranks, x, y) \in {"Less", "Greater"}
            /\ sort(ranks, x, y) = "Less" <=> sort(ranks, y, x) = "Greater"
        /\ \A x, y, z \in E :
            sort(ranks, x, y) = "Less" /\ sort(ranks, y, z) = "Less"
            => sort(ranks, x, z) = "Less"

\* C4: in every section of the formatted table, and of a table nested in it,
\* the configured keys come first in the order of their ranks and the other
\* keys follow in lexicographic order; the comparator is a total order on the
\* keys of the table.
PriorityOrdering ==
    stage = "once" =>
        /\ SectionsOrdered(config.keys, once)
        /\ \A i \in 1..Len(once.entries) :
            once.entries[i].value.kind = "table"
            => SectionsOrdered(config.keys, once.entries[i].value)
        /\ TotalOrder(from_config(config).keys, input.entries)

\* C4 witness: with keys ["b", "a"], the section a, b, c is written b, a, c.
PriorityOrderingWitness ==
    /\ stage = "once"
    /\ config.keys = <<KeyB, KeyA>>
    /\ KeysOf(input) = <<KeyA, KeyB, KeyC>>
    /\ \A i \in 1..3 : input.entries[i].decor.prefix = <<>>
    /\ KeysOf(once) = <<KeyB, KeyA, KeyC>>

\* What an element of an array is, whatever its decoration and its quotes.
ElementOf(v) == <<v.kind, IF v.kind = "string" THEN string_value(v) ELSE v.repr>>

ElementsOf(array) == [i \in 1..Len(array.values) |-> ElementOf(array.values[i])]

IsString(e) == e[1] = "string"

IsNoString(e) == e[1] # "string"

\* out is in sorted: its strings first in ascending order, then the other
\* elements of in, in the order they have in in.
SortedFrom(in, out) ==
    LET strings == SelectSeq(out, IsString)
    IN  /\ out = strings \o SelectSeq(in, IsNoString)
        /\ ToBag(strings) = ToBag(SelectSeq(in, IsString))
        /\ \A i, j \in 1..Len(strings) : i < j => ~LexLess(strings[j][2], strings[i][2])

\* C5: with sort_arrays, the elements of a formatted array are the strings of
\* the array in ascending order followed by its other elements in their
\* original order; without it they are the elements in their original order.
ArraySort ==
    stage = "once" =>
        \A i \in 1..Len(input.entries) :
            LET array == input.entries[i].value
                place == PlaceOf(input.entries[i].key, once)
            IN  array.kind = "array" =>
                /\ place # 0
                /\ once.entries[place].value.kind = "array"
                /\ IF config.sort_arrays
                   THEN SortedFrom(ElementsOf(array),
                                   ElementsOf(once.entries[place].value))
                   ELSE ElementsOf(once.entries[place].value) = ElementsOf(array)

\* C5 witness: [3, "b", 1, "a"] is written ["a", "b", 3, 1].
ArraySortWitness ==
    /\ stage = "once"
    /\ config.sort_arrays
    /\ input = OneKey(MixedArray)
    /\ ElementsOf(once.entries[1].value) =
        << <<"string", <<"a">>>>, <<"string", <<"b">>>>,
           <<"integer", <<"3">>>>, <<"integer", <<"1">>>> >>

\* The scalar is written between single apostrophes, not between three.
IsLiteral(repr) ==
    /\ Len(repr) >= 2
    /\ repr[1] = APOSTROPHE
    /\ ~(Len(repr) >= 3 /\ repr[2] = APOSTROPHE /\ repr[3] = APOSTROPHE)

LiteralContent(repr) == SubSeq(repr, 2, Len(repr) - 1)

PlainLiteral(repr) ==
    /\ IsLiteral(repr)
    /\ ~contains(LiteralContent(repr), BACKSLASH)
    /\ ~contains(LiteralContent(repr), QUOTE)

\* The scalar of every key of the document is rewritten between double
\* quotes when it is a plain literal (with empty: the empty literal too) and
\* is written as it was otherwise.
QuotesRewritten(empty) ==
    \A i \in 1..Len(input.entries) :
        LET v == input.entries[i].value
            place == PlaceOf(input.entries[i].key, once)
        IN  v.kind \in {"string", "integer"} =>
            /\ place # 0
            /\ once.entries[place].value.repr =
                IF PlainLiteral(v.repr) /\ (empty \/ LiteralContent(v.repr) # <<>>)
                THEN <<QUOTE>> \o LiteralContent(v.repr) \o <<QUOTE>>
                ELSE v.repr

\* C6 as claimed: a scalar is rewritten between double quotes exactly when it
\* is a single-apostrophe literal whose content holds no backslash and no
\* double quote.
QuoteNormalizationAsClaimed ==
    stage = "once" => QuotesRewritten(TRUE)

\* C6 as amended: a scalar is rewritten between double quotes exactly when it
\* is a single-apostrophe literal whose content is not empty and holds no
\* backslash and no double quote; the empty literal '' is left as it is.
QuoteNormalization ==
    stage = "once" => QuotesRewritten(FALSE)

\* C6 witness: 'x' has become "x".
QuoteNormalizationWitness ==
    /\ stage = "once"
    /\ Len(input.entries) = 1
    /\ input.entries[1].value.repr = Literal(<<"x">>)
    /\ once.entries[1].value.repr = basic_string(<<"x">>)

\* Entry i of the table is the first of a section: it is the first entry of
\* the table or its prefix starts with a newline.
Opens(table, i) == i = 1 \/ is_new_section(table.entries[i].decor.prefix)

\* The first entry of the section entry i of the table is in.
SectionOf(table, i) ==
    CHOOSE k \in 1..i : Opens(table, k) /\ \A h \in (k + 1)..i : ~Opens(table, h)

\* The prefix the section that entry i opens is written under: the prefix
\* of entry i, when it is not empty.  None: the section has no prefix.
LeadingPrefix(table, i) ==
    IF unwrap_or_empty(table.entries[i].decor.prefix) = <<>>
    THEN None
    ELSE table.entries[i].decor.prefix

\* The prefix of each section of `in` is, in `out`, the prefix of the entry
\* of that section that sorts first, which is written first in the section;
\* every other entry stays in its section with the prefix it was written
\* with, or with an empty prefix when it was the first of its section, so
\* that the prefix of a section is moved to no other entry.
SectionLeads(list, in, out) ==
    /\ Len(out.entries) = Len(in.entries)
    /\ \A p \in 1..Len(out.entries) :
        LET key == out.entries[p].key
            q == PlaceOf(key, in)
            s == SectionOf(in, p)
            prefix == unwrap_or_empty(out.entries[p].decor.prefix)
        IN  /\ q # 0
            /\ SectionOf(in, q) = s
            /\ IF p = s /\ LeadingPrefix(in, s) # None
               THEN /\ prefix = LeadingPrefix(in, s)
                    /\ \A r \in 1..Len(in.entries) :
                        (r # q /\ SectionOf(in, r) = s)
                        => KeyBefore(list, key, in.entries[r].key)
               ELSE prefix = IF Opens(in, q) /\ LeadingPrefix(in, q) # None
                             THEN <<>>
                             ELSE unwrap_or_empty(in.entries[q].decor.prefix)

\* C11: for every section of a table, the prefix of the entry the section
\* was written with first (the non-empty prefix of the first entry of the
\* table, or the prefix starting with a newline that opened a later section)
\* is after format_table the prefix of the entry that sorts first in that
\* section; it is on no entry of another section and on no other entry of
\* the section.  The same holds of a table nested in the document.
SectionLeadingDecoration ==
    stage = "once" =>
        /\ SectionLeads(config.keys, input, once)
        /\ \A i \in 1..Len(input.entries) :
            input.entries[i].value.kind = "table"
            => LET place == PlaceOf(input.entries[i].key, once)
               IN  /\ place # 0
                   /\ once.entries[place].value.kind = "table"
                   /\ SectionLeads(config.keys, input.entries[i].value,
                                   once.entries[place].value)

\* C11 witness: a document of two sections, each under a comment, one of
\* them not written with the key that sorts first at its head: after
\* formatting both comments are where they were and one is above another key.
SectionLeadingDecorationWitness ==
    /\ stage = "once"
    /\ Len(input.entries) = 3
    /\ \E i \in 2..3 :
        /\ is_new_section(input.entries[i].decor.prefix)
        /\ \A p \in {1, i} :
            /\ contains(input.entries[p].decor.prefix, HASH)
            /\ once.entries[p].decor.prefix = input.entries[p].decor.prefix
        /\ \E p \in {1, i} : once.entries[p].key # input.entries[p].key

\* Every newline of the text is followed by one tab and no second one.
OneTabAfterEachNewline(text) ==
    \A n \in 1..Len(text) :
        text[n] = NL
        => /\ n < Len(text)
           /\ text[n + 1] = TAB
           /\ n + 2 <= Len(text) => text[n + 2] # TAB

\* The text ends with a newline and with no second one before it.
EndsWithOneNewline(text) ==
    /\ text # <<>>
    /\ text[Len(text)] = NL
    /\ Len(text) >= 2 => text[Len(text) - 1] # NL

\* The arrays of the document that format_array takes as multiline, each
\* with what it is formatted to.
MultilineArrays ==
    { <<input.entries[i].value, once.entries[PlaceOf(input.entries[i].key, once)].value>> :
        i \in {j \in 1..Len(input.entries) :
                  /\ input.entries[j].value.kind = "array"
                  /\ is_multiline(input.entries[j].value)
                  /\ PlaceOf(input.entries[j].key, once) # 0} }

\* C12: in the output of every array that format_array takes as multiline
\* (its trailing text starts with a newline, or the prefix or suffix of an
\* element holds a newline), every newline in the prefix of an element is
\* followed by exactly one tab, the trailing comma is set, and the trailing
\* text ends with exactly one newline.
MultilineArrayIndentation ==
    stage = "once" =>
        \A a \in MultilineArrays :
            /\ \A i \in 1..Len(a[2].values) :
                OneTabAfterEachNewline(unwrap_or_empty(a[2].values[i].prefix))
            /\ a[2].trailing_comma
            /\ EndsWithOneNewline(a[2].trailing)

-----------------------------------------------------------------------------
(* The file driver: the text of a document, run and process_file.  The     *)
(* texts of the driver are documents of keys with scalar values, comments  *)
(* and blank lines.                                                        *)

KeyChars == {"a", "b", "c", "d"}

Digits == {"1", "2", "3"}

\* The first place from i on where s holds no character of cs (Len(s) + 1
\* when there is none).
RECURSIVE skip(_, _, _)
skip(s, i, cs) == IF i <= Len(s) /\ s[i] \in cs THEN skip(s, i + 1, cs) ELSE i

\* The first place from i on where s holds c (Len(s) + 1 when there is none).
RECURSIVE find(_, _, _)
find(s, i, c) == IF i <= Len(s) /\ s[i] # c THEN find(s, i + 1, c) ELSE i

\* The first place from i on that is not white space, a newline or in a
\* comment.
RECURSIVE skip_decor(_, _)
skip_decor(s, i) ==
    IF i > Len(s) THEN i
    ELSE IF s[i] \in WhiteSpace THEN skip_decor(s, i + 1)
    ELSE IF s[i] = HASH THEN skip_decor(s, find(s, i, NL))
    ELSE i

\* The place after the scalar that starts at i, 0 when none starts there.
value_end(s, i) ==
    IF i > Len(s) THEN 0
    ELSE IF s[i] \in Digits THEN skip(s, i, Digits)
    ELSE IF s[i] \in {APOSTROPHE, QUOTE}
         THEN LET close == find(s, i + 1, s[i])
              IN  IF close > Len(s) \/ find(s, i + 1, NL) < close THEN 0 ELSE close + 1
    ELSE 0

\* text.parse::<Document>() from place i on, after the entries parsed so
\* far: the entries and the trailing text of the document, or an error.
RECURSIVE parse_from(_, _, _)
parse_from(s, i, entries) ==
    LET key == skip_decor(s, i)
        key_end == skip(s, key, KeyChars)
        equals == skip(s, key_end, {SP, TAB})
        value == skip(s, equals + 1, {SP, TAB})
        end == value_end(s, value)
        comment == skip(s, end, {SP, TAB})
        eol == IF comment <= Len(s) /\ s[comment] = HASH
               THEN find(s, comment, NL) ELSE comment
        entry == Entry(SubSeq(s, key, key_end - 1),
                       Scalar(IF s[value] \in Digits THEN "integer" ELSE "string",
                              SubSeq(s, value, end - 1),
                              SubSeq(s, equals + 1, value - 1),
                              SubSeq(s, end, eol - 1)),
                       SubSeq(s, i, key - 1),
                       SubSeq(s, key_end, equals - 1))
    IN  IF key > Len(s)
        THEN [ok |-> TRUE, entries |-> entries, trailing |-> SubSeq(s, i, Len(s))]
        ELSE IF \/ key_end = key
                \/ equals > Len(s) \/ s[equals] # "="
                \/ end = 0
                \/ eol <= Len(s) /\ s[eol] # NL
                \/ \E n \in 1..Len(entries) : entries[n].key = SubSeq(s, key, key_end - 1)
        THEN [ok |-> FALSE, entries |-> <<>>, trailing |-> <<>>]
        ELSE parse_from(s, eol + 1, Append(entries, entry))

parse(text) == parse_from(text, 1, <<>>)

\* Document::to_string(): the keys of the table, each on its line with its
\* decoration, then the trailing text.
RECURSIVE to_string_first(_, _)
to_string_first(n, entries) ==
    IF n = 0 THEN <<>>
    ELSE to_string_first(n - 1, entries)
         \o unwrap_or_empty(entries[n].decor.prefix) \o entries[n].key
         \o unwrap_or_empty(entries[n].decor.suffix) \o <<"=">>
         \o unwrap_or_empty(entries[n].value.prefix) \o entries[n].value.repr
         \o unwrap_or_empty(entries[n].value.suffix) \o <<NL>>

to_string(table, trailing) ==
    to_string_first(Len(table.entries), table.entries) \o trailing

\* output_text of process_file for a parsed document.
output_text(self, doc) ==
    trim(to_string(format_table(self, Table(doc.entries, <<>>, <<>>)),
                   trim_end(doc.trailing)))
    \o <<NL>>

\* A slip in the branches of process_file: the file is written in check
\* mode too.
writes_in_check_mode(check_only, text, output) == text # output

\* Whether process_file reaches File::create.
writes(check_only, text, output) == ~check_only /\ text # output

\* A run that goes on to the next file whatever happened to this one.
propagate_nothing(result) == "running"

\* What a result of process_file makes of the run: `?` returns the error
\* from run, process::exit ends the process, otherwise the loop goes on.
propagate(result) ==
    CASE result \in {"PathError", "ParseError", "WriteError"} -> "err"
      [] result = "IoError" -> "exit3"
      [] result = "CheckFailed" -> "exit2"
      [] OTHER -> "running"

\* What is on disk where a file can be: no file, a file that cannot be read
\* as text, or a text.
Missing == <<"Missing">>
Unreadable == <<"Unreadable">>

\* One call of process_file: what was read, what the formatter made of it,
\* whether File::create was called, how the call ended and what the file
\* holds afterwards.
End(result, text, output, file_create, after) ==
    [result |-> result, text |-> text, output |-> output,
     file_create |-> file_create, after |-> after]

\* The ways process_file can go on a file that holds `before`.  Creating
\* the file and writing it can fail: a failed File::create leaves the file
\* as it was, a failed write_all or flush leaves the file with the first
\* bytes of the output text, any number of them.
process_file(self, before, check_only) ==
    IF before = Missing THEN {End("PathError", <<>>, <<>>, FALSE, before)}
    ELSE IF before = Unreadable THEN {End("IoError", <<>>, <<>>, FALSE, before)}
    ELSE LET text == before
             doc == parse(text)
             output == output_text(self, doc)
         IN  IF ~doc.ok THEN {End("ParseError", text, <<>>, FALSE, before)}
             ELSE IF writes(check_only, text, output)
             THEN {End("WriteError", text, output, TRUE, before)}
                  \cup {End("WriteError", text, output, TRUE, SubSeq(output, 1, n)) :
                            n \in 0..Len(output)}
                  \cup {End("Overwritten", text, output, TRUE, output)}
             ELSE IF check_only
             THEN IF text # output
                  THEN {End("CheckFailed", text, output, FALSE, before)}
                  ELSE {End("CheckPassed", text, output, FALSE, before)}
             ELSE {End("Unchanged", text, output, FALSE, before)}

\* What the run keeps of a call of process_file on a file.
Outcome(file, end) ==
    [file |-> file, result |-> end.result, text |-> end.text,
     output |-> end.output, file_create |-> end.file_create]

-----------------------------------------------------------------------------
(* SpecRun: run over a list of files. *)

MaxFiles == 2

Files == {"f", "g"}

Line(key, value) == key \o <<SP, "=", SP>> \o value \o <<NL>>

\* Texts on disk: formatted and not, with sections, comments, white space
\* and trailing text, the empty text, and texts that do not parse.
Texts ==
    { Line(KeyA, <<"1">>),
      Line(KeyB, Literal(<<"x">>)) \o Line(KeyA, <<"1">>),
      <<NL, SP>> \o Comment(<<"b">>) \o <<NL>> \o KeyB \o <<"=", "2", NL, NL>>
          \o Comment(<<"a">>) \o <<NL>> \o KeyA \o <<SP, SP, "=", TAB, "1", SP, SP>>
          \o Comment(<<"p">>) \o <<NL, NL>> \o Comment(<<"s">>) \o <<NL, NL>>,
      Line(KeyC, <<"1">>) \o Comment(<<"a">>) \o <<NL, NL>> \o Line(KeyA, <<"1">>),
      Comment(<<"b">>) \o <<NL>> \o Line(KeyB, <<"1">>) \o Comment(<<"a">>) \o <<NL>>
          \o KeyA \o <<SP, "=", SP, "1">>,
      <<>>,
      KeyA \o <<SP, "=", NL>>,
      Line(KeyA, <<"1">>) \o Line(KeyA, <<"2">>) }

Contents == Texts \cup {Missing, Unreadable}

FileLists == UNION {[1..n -> Files] : n \in 1..MaxFiles}

\* The variables of the formatter, which is not run on its own in SpecRun.
NoFormat ==
    /\ input = Unset /\ once = Unset /\ twice = Unset /\ stage = "none"

InitRun ==
    /\ config \in Configs
    /\ NoFormat
    /\ disk \in [Files -> Contents]
    /\ disk0 = disk
    /\ files \in FileLists
    /\ check \in BOOLEAN
    /\ next_file = 1
    /\ status = "running"
    /\ outcomes = <<>>

\* One turn of the loop of run: process_file on the next file, with `?`.
ProcessFile ==
    /\ status = "running"
    /\ next_file <= Len(files)
    /\ \E end \in process_file(from_config(config), disk[files[next_file]], check) :
        /\ disk' = [disk EXCEPT ![files[next_file]] = end.after]
        /\ outcomes' = Append(outcomes, Outcome(files[next_file], end))
        /\ status' = propagate(end.result)
    /\ next_file' = next_file + 1
    /\ UNCHANGED <<config, input, once, twice, stage, disk0, files, check>>

\* The loop is over: Ok(()).
Finish ==
    /\ status = "running"
    /\ next_file > Len(files)
    /\ status' = "ok"
    /\ UNCHANGED <<config, input, once, twice, stage,
                   disk, disk0, files, check, next_file, outcomes>>

NextRun == ProcessFile \/ Finish

SpecRun == InitRun /\ [][NextRun]_vars

-----------------------------------------------------------------------------
(* What the properties of the driver are stated with. *)

\* The results of process_file after which run does not go on.
Failures == {"PathError", "IoError", "ParseError", "WriteError", "CheckFailed"}

Ended == status \in {"ok", "err", "exit2", "exit3"}

\* The results of the calls of process_file so far, in order.
Results == [k \in 1..Len(outcomes) |-> outcomes[k].result]

\* C7: in a run in check mode, whatever the files and however each call of
\* process_file ends (check passed, check failed, read error, parse error),
\* every file holds on disk what it held before the run.
CheckModeSideEffectFree == check => disk = disk0

\* A run in check mode in which a check passed on a file and then failed on
\* the next, which does not hold its formatted text.
CheckModeSideEffectFreeWitness ==
    /\ check
    /\ status = "exit2"
    /\ Results = <<"CheckPassed", "CheckFailed">>
    /\ outcomes[2].text # outcomes[2].output

\* C8: outside check mode process_file calls File::create exactly when the
\* formatted text differs from the text read, and once it has overwritten a
\* file with the formatted text, process_file on that file again, with the
\* same configuration, finds it unchanged and does not write.
RoundTrip ==
    /\ \A k \in 1..Len(outcomes) :
        (~check /\ outcomes[k].result \notin {"PathError", "IoError", "ParseError"})
            => (outcomes[k].file_create <=> outcomes[k].text # outcomes[k].output)
    /\ \A k \in 1..Len(outcomes) : \A l \in (k + 1)..Len(outcomes) :
        (outcomes[k].result = "Overwritten" /\ outcomes[l].file = outcomes[k].file)
            => /\ outcomes[l].result = "Unchanged"
               /\ ~outcomes[l].file_create
               /\ outcomes[l].text = outcomes[k].output

\* A file that was not formatted is overwritten and then processed again.
RoundTripWitness ==
    /\ ~check
    /\ Len(outcomes) = 2
    /\ outcomes[1].file = outcomes[2].file
    /\ outcomes[1].result = "Overwritten"
    /\ outcomes[1].text # <<>>
    /\ outcomes[2].result = "Unchanged"

AllOrNothing ==
    (~check /\ outcomes # <<>>) =>
        LET last == outcomes[Len(outcomes)]
        IN  last.result \in {"Unchanged", "Overwritten", "ParseError", "WriteError"}
            => \/ disk[last.file] = last.text
               \/ last.result # "ParseError" /\ disk[last.file] = last.output

=============================================================================
